---- MODULE Spec2Model ----
(***************************************************************************)
(* Actor-critic example (examples/reinforcement_learning/actor_critic.py): *)
(* the callbacks registered on the training engine, the per-episode        *)
(* buffers of the policy model, and the arithmetic of finish_episode.      *)
(*                                                                         *)
(* Numbers.  Rewards, the discount factor and the running reward are exact *)
(* rationals <<numerator, denominator>> in lowest terms.  The tensor       *)
(* arithmetic of the normalisation (mean, standard deviation, division) is *)
(* fixed-point: a tensor element is an integer count of quanta of 1/Scale, *)
(* every operation rounds to the nearest quantum, and the stability        *)
(* constant eps (the float32 machine epsilon, one unit in the last place   *)
(* at 1.0) is one quantum.  NaN is encoded as an integer below every value *)
(* a tensor of the model can hold.                                         *)
(***************************************************************************)
EXTENDS Integers, Sequences, FiniteSets

\* ---------------------------------------------------------------- bounds
MaxEpisodes == 2      \* args.max_episodes of the checked runs
EpochLength == 3      \* len(timesteps) of the checked runs (10000 in the script)
MaxReward == 2        \* the environment's rewards are 0..MaxReward
LogInterval == 2      \* args.log_interval of the checked runs
Scale == 1000         \* quanta per unit of the fixed-point tensor arithmetic
StdFloor == 50        \* "large relative to eps": a deviation of StdFloor * eps

\* ------------------------------------------------------ exact rationals
Abs(i) == IF i < 0 THEN -i ELSE i

RECURSIVE GCD(_, _)
GCD(a, b) == IF b = 0 THEN a ELSE GCD(b, a % b)

\* n/d in lowest terms, d > 0
Rat(n, d) == LET g == GCD(Abs(n), d) IN <<n \div g, d \div g>>

RInt(i) == <<i, 1>>

RAdd(p, q) ==
    LET l == (p[2] \div GCD(p[2], q[2])) * q[2]
    IN  Rat(p[1] * (l \div p[2]) + q[1] * (l \div q[2]), l)

RMul(p, q) ==
    LET g1 == GCD(Abs(p[1]), q[2])
        g2 == GCD(Abs(q[1]), p[2])
    IN  Rat((p[1] \div g1) * (q[1] \div g2), (p[2] \div g2) * (q[2] \div g1))

RGreater(p, q) == RAdd(p, <<-q[1], q[2]>>)[1] > 0

\* -------------------------------------------------- fixed-point tensors
\* not-a-number: the result of 0/0, kept by every operation it enters
NaN == 0 - 2^30

\* a / b rounded to the nearest integer (b > 0)
RoundDiv(a, b) == (2 * a + b) \div (2 * b)

RECURSIVE ISqrtBetween(_, _, _)
ISqrtBetween(v, lo, hi) ==
    IF lo >= hi THEN lo
    ELSE LET mid == (lo + hi + 1) \div 2
         IN  IF mid * mid <= v THEN ISqrtBetween(v, mid, hi)
                               ELSE ISqrtBetween(v, lo, mid - 1)

\* the integer square root of v >= 0
ISqrt(v) == ISqrtBetween(v, 0, IF v < 46340 THEN v ELSE 46340)

RECURSIVE SumSeq(_)
SumSeq(s) == IF s = <<>> THEN 0 ELSE Head(s) + SumSeq(Tail(s))

\* torch.tensor(rewards): every exact return becomes a tensor element
ToTensor(qs) ==
    [i \in 1..Len(qs) |->
        (qs[i][1] \div qs[i][2]) * Scale
            + RoundDiv((qs[i][1] % qs[i][2]) * Scale, qs[i][2])]

\* Tensor.mean(): NaN for an empty tensor
Mean(xs) == IF Len(xs) = 0 THEN NaN ELSE RoundDiv(SumSeq(xs), Len(xs))

\* Tensor.std(): the unbiased estimator, which divides by n - 1 and so is
\* NaN (0/0) for fewer than two elements
Std(xs) ==
    IF Len(xs) < 2 THEN NaN
    ELSE LET m == Mean(xs)
             sq == [i \in 1..Len(xs) |-> (xs[i] - m) * (xs[i] - m)]
         IN  ISqrt(RoundDiv(SumSeq(sq), Len(xs) - 1))

\* eps = np.finfo(np.float32).eps.item(): one quantum
Eps == 1

\* rewards.std() + eps
StdPlusEps(xs) == IF Std(xs) = NaN THEN NaN ELSE Std(xs) + Eps

\* the mean not subtracted before the division
NormalizeNoMean(xs) ==
    [i \in 1..Len(xs) |->
        IF StdPlusEps(xs) = NaN THEN NaN
        ELSE RoundDiv(xs[i] * Scale, StdPlusEps(xs))]

\* (rewards - rewards.mean()) / (rewards.std() + eps); NaN propagates
Normalize(xs) ==
    [i \in 1..Len(xs) |->
        IF StdPlusEps(xs) = NaN \/ Mean(xs) = NaN THEN NaN
        ELSE RoundDiv((xs[i] - Mean(xs)) * Scale, StdPlusEps(xs))]

\* ------------------------------------------------ discounted returns
Reverse(s) == [i \in 1..Len(s) |-> s[Len(s) + 1 - i]]

\* the discount left out of the recurrence
DiscountNoGamma(r, g, R) == RAdd(RInt(r), R)

\* R = r + gamma * R
Discount(r, g, R) == RAdd(RInt(r), RMul(g, R))

RECURSIVE ReturnsLoop(_, _, _, _)
\* for r in model.rewards[::-1]: R = r + gamma * R; rewards.insert(0, R)
ReturnsLoop(rev, g, R, acc) ==
    IF rev = <<>> THEN acc
    ELSE LET R2 == Discount(Head(rev), g, R)
         IN  ReturnsLoop(Tail(rev), g, R2, <<R2>> \o acc)

\* the raw returns of a sequence of reward values under discount g
RawReturns(rs, g) == ReturnsLoop(Reverse(rs), g, RInt(0), <<>>)

\* ------------------------------------------------------------ the state
VARIABLES
    pc,                 \* where the engine's run loop stands
    epoch,              \* engine.state.epoch
    iter,               \* batches of timesteps taken in the current epoch
    should_terminate,   \* engine.should_terminate
    should_terminate_single_epoch,  \* set by engine.terminate_epoch()
    observation,        \* engine.state.observation
    timestep,           \* engine.state.timestep
    timestep_epoch,     \* the epoch in which engine.state.timestep was written
    running_reward,     \* engine.state.running_reward
    rewards,            \* model.rewards
    saved_actions,      \* model.saved_actions
    env_state,          \* the environment: "unreset", "running" or "done"
    gamma,              \* args.gamma
    reward_threshold,   \* env.spec.reward_threshold
    returns,            \* finish_episode's raw returns, while it runs
    normalized,         \* finish_episode's normalised tensor, while it runs
    finish_calls,       \* invocations of finish_episode so far
    last_logged,        \* the episode of the last line log_episode printed
    error               \* the exception that ended the run, if any

vars == <<pc, epoch, iter, should_terminate, should_terminate_single_epoch,
          observation, timestep, timestep_epoch, running_reward, rewards,
          saved_actions, env_state, gamma, reward_threshold, returns,
          normalized, finish_calls, last_logged, error>>

\* an attribute of engine.state that was never assigned
Unset == 0 - 1

\* args.gamma of the checked runs
Gammas == {<<0, 1>>, <<1, 2>>, <<9, 10>>, <<1, 1>>}

\* env.spec.reward_threshold of the checked runs
Thresholds == {<<49, 5>>, <<991, 100>>, <<10, 1>>}

\* the rewards env.step can return
RewardVals == 0..MaxReward

\* an empty list of timesteps
NoTimesteps == <<>>

\* timesteps = list(range(10000)), at the length of the checked runs
Timesteps == [i \in 1..EpochLength |-> i - 1]

\* one epoch more than args.max_episodes
OneEpochMore == MaxEpisodes + 1

\* trainer.run(timesteps, max_epochs=args.max_episodes)
RunMaxEpochs == MaxEpisodes

\* the values held by a buffer of rewards
RewardValues(rs) == [i \in 1..Len(rs) |-> rs[i].value]

Init ==
    /\ pc = "not_started"
    /\ epoch = 0
    /\ iter = 0
    /\ should_terminate = FALSE
    /\ should_terminate_single_epoch = FALSE
    /\ observation = [epoch |-> 0, index |-> Unset]
    /\ timestep = Unset
    /\ timestep_epoch = 0
    /\ running_reward = RInt(Unset)
    /\ rewards = <<>>
    /\ saved_actions = <<>>
    /\ env_state = "unreset"
    /\ gamma \in Gammas
    /\ reward_threshold \in Thresholds
    /\ returns = <<>>
    /\ normalized = <<>>
    /\ finish_calls = 0
    /\ last_logged = 0
    /\ error = "none"

\* ------------------------------------------------- the script's callbacks
\* the record appended twice
SelectActionTwice(sa, obs) ==
    Append(Append(sa, [epoch |-> obs.epoch, timestep |-> obs.index]),
           [epoch |-> obs.epoch, timestep |-> obs.index])

\* select_action: the record appended for the observation it is given
SelectAction(sa, obs) ==
    Append(sa, [epoch |-> obs.epoch, timestep |-> obs.index])

\* terminate_epoch() never called
NeverTerminateEpoch(done, flag) == flag

\* if done: engine.terminate_epoch()
TerminateEpochOnDone(done, flag) == IF done THEN TRUE ELSE flag

\* run_single_timestep(engine, timestep), the environment answering
\* (reward, done)
RunSingleTimestep(t, reward, done) ==
    /\ saved_actions' = SelectAction(saved_actions, observation)
    /\ observation' = [epoch |-> epoch, index |-> observation.index + 1]
    /\ env_state' = IF done THEN "done" ELSE env_state
    /\ rewards' = Append(rewards,
                         [value |-> reward, epoch |-> epoch, timestep |-> t])
    /\ should_terminate_single_epoch' =
           TerminateEpochOnDone(done, should_terminate_single_epoch)
    /\ timestep' = IF done THEN t ELSE timestep
    /\ timestep_epoch' = IF done THEN epoch ELSE timestep_epoch

\* initialize: engine.state.running_reward = 10
Initialize == running_reward' = RInt(10)

\* reset_environment_state: engine.state.observation = env.reset()
ResetEnvironmentState ==
    /\ env_state' = "running"
    /\ observation' = [epoch |-> epoch', index |-> 0]

\* running_reward * 0.99 + t * 0.01
Smoothed(rr, t) == RAdd(RMul(rr, <<99, 100>>), RMul(RInt(t), <<1, 100>>))

\* the rewards left in the buffer
KeepRewards(rs) == rs

\* del model.rewards[:]
ClearRewards(rs) == <<>>

\* del model.saved_actions[:]
ClearSavedActions(sa) == <<>>

\* finish_episode up to the losses: the raw returns and their normalisation
FinishEpisodeLosses ==
    /\ returns' = RawReturns(RewardValues(rewards), gamma)
    /\ normalized' = Normalize(ToTensor(returns'))
    /\ finish_calls' = finish_calls + 1

\* finish_episode from optimizer.zero_grad() on: torch.stack raises on an
\* empty list of losses; otherwise one optimizer step, and both buffers are
\* cleared
FinishEpisodeStep ==
    IF Len(saved_actions) = 0 \/ Len(normalized) = 0
    THEN /\ error' = "RuntimeError"
         /\ pc' = "failed"
         /\ UNCHANGED <<rewards, saved_actions, returns, normalized>>
    ELSE /\ rewards' = ClearRewards(rewards)
         /\ saved_actions' = ClearSavedActions(saved_actions)
         /\ returns' = <<>>
         /\ normalized' = <<>>
         /\ pc' = "log_episode"
         /\ error' = error

\* update_model: reading engine.state.timestep raises when it was never set
UpdateModel ==
    IF timestep = Unset
    THEN /\ error' = "AttributeError"
         /\ pc' = "failed"
         /\ UNCHANGED <<running_reward, returns, normalized, finish_calls>>
    ELSE /\ running_reward' = Smoothed(running_reward, timestep)
         /\ FinishEpisodeLosses
         /\ pc' = "optimizer_step"
         /\ error' = error

\* log_episode, registered with every=args.log_interval
LogEpisode ==
    last_logged' = IF epoch % LogInterval = 0 THEN epoch ELSE last_logged

\* >= in place of >
AtOrAboveThreshold(rr, th) == rr = th \/ RGreater(rr, th)

\* running_reward > env.spec.reward_threshold
AboveThreshold(rr, th) == RGreater(rr, th)

\* should_finish_training
ShouldFinishTraining ==
    should_terminate' =
        IF AboveThreshold(running_reward, reward_threshold)
        THEN TRUE ELSE should_terminate

\* ------------------------------------------------------ the engine's loop
\* Events.STARTED
EngineStarted ==
    /\ pc = "not_started"
    /\ Initialize
    /\ pc' = "epoch_loop"
    /\ UNCHANGED <<epoch, iter, should_terminate,
                   should_terminate_single_epoch, observation, timestep,
                   timestep_epoch, rewards, saved_actions, env_state, gamma,
                   reward_threshold, returns, normalized, finish_calls,
                   last_logged, error>>

\* the next epoch begins: Events.EPOCH_STARTED
EngineEpochStarted ==
    /\ pc = "epoch_loop"
    /\ epoch < RunMaxEpochs
    /\ ~should_terminate
    /\ epoch' = epoch + 1
    /\ iter' = 0
    /\ ResetEnvironmentState
    /\ pc' = IF Len(Timesteps) = 0 THEN "update_model" ELSE "iteration"
    /\ UNCHANGED <<should_terminate, should_terminate_single_epoch, timestep,
                   timestep_epoch, running_reward, rewards, saved_actions,
                   gamma, reward_threshold, returns, normalized, finish_calls,
                   last_logged, error>>

\* the process function on the next batch of the data
EngineIteration ==
    /\ pc = "iteration"
    /\ \E reward \in RewardVals, done \in BOOLEAN :
           RunSingleTimestep(Timesteps[iter + 1], reward, done)
    /\ iter' = iter + 1
    /\ pc' = "iteration_completed"
    /\ UNCHANGED <<epoch, should_terminate, running_reward, gamma,
                   reward_threshold, returns, normalized, finish_calls,
                   last_logged, error>>

\* after the process function: the epoch ends on terminate_epoch() or when
\* the data is exhausted
EngineIterationCompleted ==
    /\ pc = "iteration_completed"
    /\ should_terminate_single_epoch' = FALSE
    /\ pc' = IF should_terminate_single_epoch \/ iter >= Len(Timesteps)
             THEN "update_model" ELSE "iteration"
    /\ UNCHANGED <<epoch, iter, should_terminate, observation, timestep,
                   timestep_epoch, running_reward, rewards, saved_actions,
                   env_state, gamma, reward_threshold, returns, normalized,
                   finish_calls, last_logged, error>>

\* Events.EPOCH_COMPLETED, first handler
EngineUpdateModel ==
    /\ pc = "update_model"
    /\ UpdateModel
    /\ UNCHANGED <<epoch, iter, should_terminate,
                   should_terminate_single_epoch, observation, timestep,
                   timestep_epoch, rewards, saved_actions, env_state, gamma,
                   reward_threshold, last_logged>>

\* the first handler's finish_episode call runs on
EngineFinishEpisodeStep ==
    /\ pc = "optimizer_step"
    /\ FinishEpisodeStep
    /\ UNCHANGED <<epoch, iter, should_terminate,
                   should_terminate_single_epoch, observation, timestep,
                   timestep_epoch, running_reward, env_state, gamma,
                   reward_threshold, finish_calls, last_logged>>

\* Events.EPOCH_COMPLETED, second handler
EngineLogEpisode ==
    /\ pc = "log_episode"
    /\ LogEpisode
    /\ pc' = "should_finish_training"
    /\ UNCHANGED <<epoch, iter, should_terminate,
                   should_terminate_single_epoch, observation, timestep,
                   timestep_epoch, running_reward, rewards, saved_actions,
                   env_state, gamma, reward_threshold, returns, normalized,
                   finish_calls, error>>

\* Events.EPOCH_COMPLETED, third handler
EngineShouldFinishTraining ==
    /\ pc = "should_finish_training"
    /\ ShouldFinishTraining
    /\ pc' = "epoch_loop"
    /\ UNCHANGED <<epoch, iter, should_terminate_single_epoch, observation,
                   timestep, timestep_epoch, running_reward, rewards,
                   saved_actions, env_state, gamma, reward_threshold, returns,
                   normalized, finish_calls, last_logged, error>>

\* the run ends: the epoch cap is reached or should_terminate is set
EngineCompleted ==
    /\ pc = "epoch_loop"
    /\ (epoch >= RunMaxEpochs \/ should_terminate)
    /\ pc' = "completed"
    /\ UNCHANGED <<epoch, iter, should_terminate,
                   should_terminate_single_epoch, observation, timestep,
                   timestep_epoch, running_reward, rewards, saved_actions,
                   env_state, gamma, reward_threshold, returns, normalized,
                   finish_calls, last_logged, error>>

Next ==
    \/ EngineStarted
    \/ EngineEpochStarted
    \/ EngineIteration
    \/ EngineIterationCompleted
    \/ EngineUpdateModel
    \/ EngineFinishEpisodeStep
    \/ EngineLogEpisode
    \/ EngineShouldFinishTraining
    \/ EngineCompleted

Spec == Init /\ [][Next]_vars

\* ------------------------------------------------------------ properties
Terminated == pc \in {"completed", "failed"}

RECURSIVE RPow(_, _)
\* p to the power k
RPow(p, k) == IF k = 0 THEN RInt(1) ELSE RMul(p, RPow(p, k - 1))

RECURSIVE ClosedForm(_, _, _, _)
\* r_t + g * r_(t+1) + ... + g^(T - t) * r_T, summed from position k on
ClosedForm(rs, g, t, k) ==
    IF k > Len(rs) THEN RInt(0)
    ELSE RAdd(RMul(RPow(g, k - t), RInt(rs[k])), ClosedForm(rs, g, t, k + 1))

\* C1: the raw returns finish_episode builds have the length of the reward
\* sequence, and the return at position t is
\* r_t + gamma * r_(t+1) + ... + gamma^(T - t) * r_T.
C1_DiscountedReturns ==
    pc = "optimizer_step" =>
        /\ Len(returns) = Len(rewards)
        /\ \A t \in 1..Len(rewards) :
               returns[t] = ClosedForm(RewardValues(rewards), gamma, t, t)

C1_Witness ==
    /\ pc = "optimizer_step"
    /\ RewardValues(rewards) = <<1, 1, 1>>
    /\ gamma = <<1, 1>>
    /\ returns = <<<<3, 1>>, <<2, 1>>, <<1, 1>>>>

\* C2: after every completed update both buffers are empty, so they are
\* empty at every episode start, and every entry a buffer holds was recorded
\* in the current episode (none is left for a later episode's update).
C2_BuffersCleared ==
    /\ pc \in {"log_episode", "should_finish_training", "epoch_loop",
               "completed"}
           => rewards = <<>> /\ saved_actions = <<>>
    /\ (pc = "iteration" /\ iter = 0) => rewards = <<>> /\ saved_actions = <<>>
    /\ \A i \in 1..Len(rewards) : rewards[i].epoch = epoch
    /\ \A i \in 1..Len(saved_actions) : saved_actions[i].epoch = epoch

C2_Witness ==
    /\ pc = "iteration"
    /\ iter = 0
    /\ epoch = 2
    /\ finish_calls = 1
    /\ rewards = <<>>
    /\ saved_actions = <<>>

\* C3: every timestep appends one saved action and one reward: the buffers
\* have equal length, the number of timesteps executed in the episode when a
\* step begins or ends and when finish_episode runs, and the i-th entries of
\* both belong to the i-th timestep.
C3_BuffersPaired ==
    /\ Len(rewards) = Len(saved_actions)
    /\ pc \in {"iteration", "iteration_completed", "update_model",
               "optimizer_step"} => Len(rewards) = iter
    /\ \A i \in 1..Len(rewards) : rewards[i].timestep = i - 1
    /\ \A i \in 1..Len(saved_actions) :
           /\ saved_actions[i].timestep = i - 1
           /\ i <= Len(rewards) => saved_actions[i].epoch = rewards[i].epoch

C3_Witness ==
    /\ pc = "optimizer_step"
    /\ Len(rewards) = 3
    /\ Len(saved_actions) = 3
    /\ epoch = 2

\* C4: the running reward starts at 10 and update_model smooths it as
\* 0.99 * running_reward + 0.01 * timestep; should_finish_training sets
\* should_terminate exactly when the running reward is strictly above the
\* threshold, nothing else changes the flag, and once it is set no episode is
\* started and no environment step is taken.
C4_EarlyStop ==
    [][/\ pc = "not_started" => running_reward' = RInt(10)
       /\ pc' = "optimizer_step" =>
              running_reward' =
                  RAdd(RMul(running_reward, <<99, 100>>),
                       RMul(RInt(timestep), <<1, 100>>))
       /\ pc = "should_finish_training" =>
              IF RGreater(running_reward, reward_threshold)
              THEN should_terminate'
              ELSE should_terminate' = should_terminate
       /\ pc # "should_finish_training" =>
              should_terminate' = should_terminate
       /\ should_terminate =>
              /\ should_terminate'
              /\ epoch' = epoch
              /\ iter' = iter
              /\ rewards' = rewards
              /\ env_state' = env_state]_vars

C4_Witness ==
    /\ pc = "completed"
    /\ should_terminate
    /\ epoch = 1
    /\ running_reward = <<991, 100>>
    /\ reward_threshold = <<49, 5>>

\* the engine's steps in one episode: the episode start, two for every
\* timestep, and four for the episode-completed handlers
EpisodeSteps == 2 * EpochLength + 5

\* the steps the run can still take, at most
Rank ==
    LET left == (MaxEpisodes - epoch) * EpisodeSteps
    IN  CASE pc = "not_started" -> MaxEpisodes * EpisodeSteps + 2
          [] pc = "epoch_loop" -> left + 1
          [] pc = "iteration" -> left + 5 + 2 * (EpochLength - iter)
          [] pc = "iteration_completed" ->
                 left + 6 + 2 * (EpochLength - iter)
          [] pc = "update_model" -> left + 5
          [] pc = "optimizer_step" -> left + 4
          [] pc = "log_episode" -> left + 3
          [] pc = "should_finish_training" -> left + 2
          [] OTHER -> 0

\* C5: the run terminates: an episode executes at most EpochLength
\* timesteps, at most MaxEpisodes episodes are started, every step of the
\* run lowers the count of steps it can still take, which is never
\* negative, and at the episode cap the run ends normally whatever the
\* running reward is.
C5_Terminates ==
    [][/\ iter' <= EpochLength
       /\ epoch' <= MaxEpisodes
       /\ Len(rewards') <= EpochLength
       /\ Rank' >= 0
       /\ Rank' < Rank
       /\ (pc = "epoch_loop" /\ epoch = MaxEpisodes) => pc' = "completed"
       /\ Rank' = 0 <=> Terminated']_vars

C5_Witness ==
    /\ pc = "completed"
    /\ epoch = MaxEpisodes
    /\ ~should_terminate
    /\ iter = EpochLength
    /\ env_state = "running"

\* the tolerance of "approximately": the share of eps in a denominator of
\* StdFloor * eps, and as much again for rounding
Tolerance == (2 * Scale) \div StdFloor

Near(x, target) == x # NaN /\ Abs(x - target) <= Tolerance

NonConstant(s) == \E i, j \in 1..Len(s) : s[i] # s[j]

\* the claim of C6 as written: for every non-constant reward sequence and
\* gamma in [0, 1) the normalised returns have mean about 0 and standard
\* deviation about 1.
C6_AsClaimed ==
    (/\ pc = "optimizer_step"
     /\ NonConstant(RewardValues(rewards))
     /\ gamma[1] < gamma[2])
        => Near(Mean(normalized), 0) /\ Near(Std(normalized), Scale)

\* C6: for every reward sequence whose raw returns have a standard deviation
\* of at least StdFloor * eps, the normalised returns have mean about 0 and
\* standard deviation about 1.
C6_Normalized ==
    (/\ pc = "optimizer_step"
     /\ Std(ToTensor(returns)) >= StdFloor * Eps)
        => Near(Mean(normalized), 0) /\ Near(Std(normalized), Scale)

C6_Witness ==
    /\ pc = "optimizer_step"
    /\ RewardValues(rewards) = <<0, 0, 1>>
    /\ gamma = <<9, 10>>
    /\ Std(ToTensor(returns)) >= StdFloor * Eps
    /\ Near(Std(normalized), Scale)

\* C7: on an episode of one timestep the denominator std + eps is a
\* well-defined positive number and the normalised return is well defined.
C7_SingleTimestep ==
    (pc = "optimizer_step" /\ Len(rewards) = 1) =>
        /\ StdPlusEps(ToTensor(returns)) # NaN
        /\ StdPlusEps(ToTensor(returns)) > 0
        /\ normalized[1] # NaN

\* C8: a step that returns done signals the end of the epoch and no further
\* step is taken in the episode; update_model, log_episode and the
\* termination check follow in this order; the environment is stepped only
\* while it is reset and not done, on an observation of the current episode.
C8_EpisodeBoundary ==
    [][/\ (pc = "iteration" /\ env_state' = "done")
              => should_terminate_single_epoch'
       /\ (pc = "iteration_completed" /\ env_state = "done")
              => pc' = "update_model"
       /\ pc = "update_model" => pc' \in {"optimizer_step", "failed"}
       /\ pc = "optimizer_step" => pc' \in {"log_episode", "failed"}
       /\ pc = "log_episode" => pc' = "should_finish_training"
       /\ pc = "should_finish_training" => pc' = "epoch_loop"
       /\ Len(rewards') > Len(rewards)
              => env_state = "running" /\ observation.epoch = epoch
       /\ pc' = "iteration" => env_state' = "running"]_vars

C8_Witness ==
    /\ pc = "iteration"
    /\ epoch = 2
    /\ iter = 0
    /\ env_state = "running"
    /\ timestep # Unset
    /\ timestep < EpochLength - 1

\* C9: whenever an episode-completed callback reads engine.state.timestep,
\* the field was written during the episode just completed and is the index
\* of its last step.
C9_TimestepFresh ==
    pc \in {"update_model", "log_episode", "should_finish_training"} =>
        /\ timestep # Unset
        /\ timestep_epoch = epoch
        /\ timestep = iter - 1

====
